---- MODULE Spec2Model ----
(***************************************************************************)
(* Model of src/src/Headroom.js: the Headroom widget, its update cycle     *)
(* (out-of-bounds guard, frozen guard, top / bottom / pin axes), the       *)
(* freeze / unfreeze switches and the init / attachEvent / destroy         *)
(* lifecycle around the scroll listener.                                   *)
(***************************************************************************)
EXTENDS Integers, Sequences, FiniteSets, TLC

(* ------------------------------ bounds --------------------------------- *)

\* largest scroll position the scroll source reports
MaxPos == 3
\* largest configured offset
MaxOffset == 2
\* largest configured tolerance (each direction)
MaxTol == 2
\* height of the scroller's viewport
ViewportHeight == 2
\* pending setTimeout(attachEvent) callbacks the model keeps at once
MaxTimers == 1
\* Debouncer objects alive at once
MaxDebouncers == 2

(* ----------------------------- vocabulary ------------------------------ *)

\* Headroom.options.classes
classes ==
  [ frozen    |-> "headroom--frozen",
    pinned    |-> "headroom--pinned",
    unpinned  |-> "headroom--unpinned",
    top       |-> "headroom--top",
    notTop    |-> "headroom--not-top",
    bottom    |-> "headroom--bottom",
    notBottom |-> "headroom--not-bottom",
    initial   |-> "headroom" ]

\* every class name the widget owns (the values destroy() removes)
ClassNames == { classes[k] : k \in DOMAIN classes }

\* the six optional callbacks of the options object
Callbacks == { "onPin", "onUnpin", "onTop", "onNotTop", "onBottom", "onNotBottom" }

\* the callback sets the model constructs the widget with
HandlerSets == { Callbacks, {} }

\* what the scroll source can report at one tick: scrollY(), height(), scrollHeight()
Readings ==
  [ scrollY      : (-1) .. MaxPos,
    height       : { ViewportHeight },
    scrollHeight : { ViewportHeight + MaxPos - 1, ViewportHeight + MaxPos } ]

\* the operation read nothing from the scroll source
NoReading == [ scrollY |-> 0, height |-> 0, scrollHeight |-> 0 ]

\* the scroll position NaN, kept apart from every number the model uses
NaN == -1000

IsNaN(x) == x = NaN

\* JavaScript <, >, <=, >=: false as soon as one side is NaN
Lt(a, b) == ~IsNaN(a) /\ ~IsNaN(b) /\ a < b
Gt(a, b) == ~IsNaN(a) /\ ~IsNaN(b) /\ a > b
\* <= taking a comparison with NaN for true
LeOrNaN(a, b) == IsNaN(a) \/ IsNaN(b) \/ a <= b

Le(a, b) == ~IsNaN(a) /\ ~IsNaN(b) /\ a <= b
Ge(a, b) == ~IsNaN(a) /\ ~IsNaN(b) /\ a >= b

\* JavaScript + and -: NaN as soon as one side is NaN
Plus(a, b) == IF IsNaN(a) \/ IsNaN(b) THEN NaN ELSE a + b
Minus(a, b) == IF IsNaN(a) \/ IsNaN(b) THEN NaN ELSE a - b

\* Math.abs
Abs(x) == IF IsNaN(x) THEN NaN ELSE IF x < 0 THEN -x ELSE x

\* Headroom.cutsTheMustard: the environment supports the widget
cutsTheMustard == TRUE

(* ------------------------------- state --------------------------------- *)

VARIABLES
  classList,         \* this.elem.classList, restricted to the widget's classes
  lastKnownScrollY,  \* this.lastKnownScrollY
  frozen,            \* this.frozen
  initialised,       \* this.initialised
  offset,            \* this.offset
  tolerance,         \* this.tolerance: [up, down]
  handlers,          \* which of the six callbacks the options registered
  debouncer,         \* this.debouncer: the current Debouncer (0: none yet)
  timers,            \* pending setTimeout(attachEvent, 100) callbacks
  listeners,         \* Debouncers registered as "scroll" listeners of the scroller
  ticking,           \* Debouncers with a requested, not yet run, frame
  reading,           \* what this.scrollSource reported to the latest operation
  prevScrollY,       \* lastKnownScrollY as the latest operation found it
  fired,             \* callbacks the latest operation invoked, in order
  op,                \* the latest operation
  again,             \* the latest operation is a transition called directly,
                     \* and so was the operation before it, the same one
  lastPinCallback    \* onPin or onUnpin, whichever fired last since the element
                     \* was last without classes ("none": neither has)

vars ==
  << classList, lastKnownScrollY, frozen, initialised, offset, tolerance,
     handlers, debouncer, timers, listeners, ticking, reading,
     prevScrollY, fired, op, again, lastPinCallback >>

config == << offset, tolerance, handlers >>
lifecycle == << initialised, debouncer, timers, listeners, ticking >>

(* -------------------------- callbacks, classes ------------------------- *)

\* if (this.onX) { this.onX.call(this); }
\* the entry of fired names the callback and keeps the this.lastKnownScrollY it
\* could read while it ran
Call(cb) ==
  IF cb \in handlers
  THEN << [ name |-> cb, lastKnownScrollY |-> lastKnownScrollY ] >>
  ELSE << >>

\* a transition that does nothing
Stay(cl) == [ cl |-> cl, cb |-> << >> ]

\* unpin() without its test of the classes
unpinUnguarded(cl) ==
  [ cl |-> (cl \cup { classes.unpinned }) \ { classes.pinned },
    cb |-> Call("onUnpin") ]

unpin(cl) ==
  IF classes.pinned \in cl \/ classes.unpinned \notin cl
  THEN [ cl |-> (cl \cup { classes.unpinned }) \ { classes.pinned },
         cb |-> Call("onUnpin") ]
  ELSE Stay(cl)

\* pin() without its test of the classes
pinUnguarded(cl) ==
  [ cl |-> (cl \ { classes.unpinned }) \cup { classes.pinned },
    cb |-> Call("onPin") ]

\* pin() leaving the unpinned class in place
pinKeepsUnpinned(cl) ==
  IF classes.unpinned \in cl
  THEN [ cl |-> cl \cup { classes.pinned },
         cb |-> Call("onPin") ]
  ELSE Stay(cl)

pin(cl) ==
  IF classes.unpinned \in cl
  THEN [ cl |-> (cl \ { classes.unpinned }) \cup { classes.pinned },
         cb |-> Call("onPin") ]
  ELSE Stay(cl)

top(cl) ==
  IF classes.top \notin cl
  THEN [ cl |-> (cl \cup { classes.top }) \ { classes.notTop },
         cb |-> Call("onTop") ]
  ELSE Stay(cl)

notTop(cl) ==
  IF classes.notTop \notin cl
  THEN [ cl |-> (cl \cup { classes.notTop }) \ { classes.top },
         cb |-> Call("onNotTop") ]
  ELSE Stay(cl)

bottom(cl) ==
  IF classes.bottom \notin cl
  THEN [ cl |-> (cl \cup { classes.bottom }) \ { classes.notBottom },
         cb |-> Call("onBottom") ]
  ELSE Stay(cl)

notBottom(cl) ==
  IF classes.notBottom \notin cl
  THEN [ cl |-> (cl \cup { classes.notBottom }) \ { classes.bottom },
         cb |-> Call("onNotBottom") ]
  ELSE Stay(cl)

(* ----------------------------- predicates ------------------------------ *)

\* isOutOfBounds without the pastBottom test
isOutOfBoundsTopOnly(currentScrollY, r) ==
  Lt(currentScrollY, 0)

\* isOutOfBounds without the pastTop test
isOutOfBoundsBottomOnly(currentScrollY, r) ==
  Gt(Plus(currentScrollY, r.height), r.scrollHeight)

\* isOutOfBounds taking the bottom edge itself for past the bottom
isOutOfBoundsInclusive(currentScrollY, r) ==
  LET pastTop    == Lt(currentScrollY, 0)
      pastBottom == Ge(Plus(currentScrollY, r.height), r.scrollHeight)
  IN  pastTop \/ pastBottom

isOutOfBounds(currentScrollY, r) ==
  LET pastTop    == Lt(currentScrollY, 0)
      pastBottom == Gt(Plus(currentScrollY, r.height), r.scrollHeight)
  IN  pastTop \/ pastBottom

\* the tolerance test exceeded by the small moves instead of the large ones
toleranceExceededWithInverted(tol, currentScrollY, direction) ==
  Le(Abs(Minus(currentScrollY, lastKnownScrollY)), tol[direction])

\* toleranceExceeded of an instance whose this.tolerance is tol
toleranceExceededWith(tol, currentScrollY, direction) ==
  Ge(Abs(Minus(currentScrollY, lastKnownScrollY)), tol[direction])

\* toleranceExceeded reading the tolerance of the opposite direction
toleranceExceededSwapped(currentScrollY, direction) ==
  Ge(Abs(Minus(currentScrollY, lastKnownScrollY)),
     tolerance[IF direction = "down" THEN "up" ELSE "down"])

toleranceExceeded(currentScrollY, direction) ==
  toleranceExceededWith(tolerance, currentScrollY, direction)

\* shouldUnpin requiring the position strictly past the offset
shouldUnpinStrictOffset(currentScrollY, tolExceeded) ==
  LET scrollingDown == Gt(currentScrollY, lastKnownScrollY)
      pastOffset    == Gt(currentScrollY, offset)
  IN  scrollingDown /\ pastOffset /\ tolExceeded

shouldUnpin(currentScrollY, tolExceeded) ==
  LET scrollingDown == Gt(currentScrollY, lastKnownScrollY)
      pastOffset    == Ge(currentScrollY, offset)
  IN  scrollingDown /\ pastOffset /\ tolExceeded

\* shouldPin taking an unchanged position for scrolling up
shouldPinEqualIsUp(currentScrollY, tolExceeded) ==
  LET scrollingUp == Le(currentScrollY, lastKnownScrollY)
      pastOffset  == Le(currentScrollY, offset)
  IN  (scrollingUp /\ tolExceeded) \/ pastOffset

\* shouldPin requiring the position strictly above the offset line
shouldPinStrictOffset(currentScrollY, tolExceeded) ==
  LET scrollingUp == Lt(currentScrollY, lastKnownScrollY)
      pastOffset  == Lt(currentScrollY, offset)
  IN  (scrollingUp /\ tolExceeded) \/ pastOffset

\* shouldPin forgetting the direction
shouldPinAnyDirection(currentScrollY, tolExceeded) ==
  LET pastOffset  == Le(currentScrollY, offset)
  IN  tolExceeded \/ pastOffset

shouldPin(currentScrollY, tolExceeded) ==
  LET scrollingUp == Lt(currentScrollY, lastKnownScrollY)
      pastOffset  == Le(currentScrollY, offset)
  IN  (scrollingUp /\ tolExceeded) \/ pastOffset

(* ------------------------------- update -------------------------------- *)

\* the top axis with the offset itself counted as not top
topAxisStrict(currentScrollY, cl) ==
  IF Lt(currentScrollY, offset) THEN top(cl) ELSE notTop(cl)

\* the top axis of update()
topAxis(currentScrollY, cl) ==
  IF Le(currentScrollY, offset) THEN top(cl) ELSE notTop(cl)

\* the bottom axis of update()
bottomAxis(currentScrollY, r, cl) ==
  IF Ge(Plus(currentScrollY, r.height), r.scrollHeight)
  THEN bottom(cl) ELSE notBottom(cl)

\* the pin axis of update()
pinAxis(currentScrollY, tolExceeded, cl) ==
  IF shouldUnpin(currentScrollY, tolExceeded) THEN unpin(cl)
  ELSE IF shouldPin(currentScrollY, tolExceeded) THEN pin(cl)
  ELSE Stay(cl)

\* the three axes with the pin axis handled first
axesPinFirst(currentScrollY, tolExceeded, r, cl) ==
  LET c == pinAxis(currentScrollY, tolExceeded, cl)
      a == topAxis(currentScrollY, c.cl)
      b == bottomAxis(currentScrollY, r, a.cl)
  IN  [ cl |-> b.cl, cb |-> c.cb \o a.cb \o b.cb ]

\* the three axes of update(), in its order: top, bottom, pin
axes(currentScrollY, tolExceeded, r, cl) ==
  LET a == topAxis(currentScrollY, cl)
      b == bottomAxis(currentScrollY, r, a.cl)
      c == pinAxis(currentScrollY, tolExceeded, b.cl)
  IN  [ cl |-> c.cl, cb |-> a.cb \o b.cb \o c.cb ]

\* the frozen guard never taken
isFrozenNever == FALSE

\* the frozen guard of update(): this.frozen === true
isFrozen == frozen = TRUE

\* the pin-axis callback fired last, given the one before and the callbacks
\* of the latest operation
LastPin(before, cbs) ==
  LET pins == { i \in DOMAIN cbs : cbs[i].name \in { "onPin", "onUnpin" } }
  IN  IF pins = {} THEN before
      ELSE cbs[CHOOSE i \in pins : \A j \in pins : j <= i].name

\* update() with the scroll source reporting r
update(r) ==
  LET currentScrollY  == r.scrollY
      scrollDirection == IF Gt(currentScrollY, lastKnownScrollY) THEN "down" ELSE "up"
      tolExceeded     == toleranceExceeded(currentScrollY, scrollDirection)
      t == axes(currentScrollY, tolExceeded, r, classList)
  IN  /\ reading' = r
      /\ prevScrollY' = lastKnownScrollY
      /\ op' = "update"
      /\ again' = FALSE
      /\ IF isOutOfBounds(currentScrollY, r)
         THEN /\ UNCHANGED << classList, lastKnownScrollY >>
              /\ fired' = << >>
         ELSE IF isFrozen
         THEN /\ lastKnownScrollY' = currentScrollY
              /\ UNCHANGED classList
              /\ fired' = << >>
         ELSE /\ classList' = t.cl
              /\ fired' = t.cb
              /\ lastKnownScrollY' = currentScrollY
      /\ lastPinCallback' = LastPin(lastPinCallback, fired')

(* ------------------------------ actions -------------------------------- *)

\* new Headroom(elem, options)
Init ==
  /\ classList = {}
  /\ lastKnownScrollY = 0
  /\ frozen = FALSE
  /\ initialised = FALSE
  /\ offset \in 0 .. MaxOffset
  /\ tolerance \in [ up : 0 .. MaxTol, down : 0 .. MaxTol ]
  /\ handlers \in HandlerSets
  /\ debouncer = 0
  /\ timers = 0
  /\ listeners = {}
  /\ ticking = {}
  /\ reading = NoReading
  /\ prevScrollY = 0
  /\ fired = << >>
  /\ op = "new"
  /\ again = FALSE
  /\ lastPinCallback = "none"

\* a caller invokes update() on the instance
Update ==
  /\ \E r \in Readings : update(r)
  /\ UNCHANGED << frozen, config, lifecycle >>

freeze ==
  /\ frozen' = TRUE
  /\ classList' = classList \cup { classes.frozen }
  /\ prevScrollY' = lastKnownScrollY
  /\ fired' = << >>
  /\ op' = "freeze"
  /\ again' = FALSE
  /\ UNCHANGED lastPinCallback
  /\ reading' = NoReading
  /\ UNCHANGED << lastKnownScrollY, config, lifecycle >>

unfreeze ==
  /\ frozen' = FALSE
  /\ classList' = classList \ { classes.frozen }
  /\ prevScrollY' = lastKnownScrollY
  /\ fired' = << >>
  /\ op' = "unfreeze"
  /\ again' = FALSE
  /\ UNCHANGED lastPinCallback
  /\ reading' = NoReading
  /\ UNCHANGED << lastKnownScrollY, config, lifecycle >>

Next ==
  \/ Update
  \/ freeze
  \/ unfreeze

Spec == Init /\ [][Next]_vars

(* ------------------------ transitions called directly ------------------ *)

TransitionNames == { "pin", "unpin", "top", "notTop", "bottom", "notBottom" }

\* the callback each transition invokes
CallbackOf ==
  [ pin |-> "onPin", unpin |-> "onUnpin", top |-> "onTop",
    notTop |-> "onNotTop", bottom |-> "onBottom", notBottom |-> "onNotBottom" ]

\* a caller invokes the transition `name` on the instance; t is its outcome
Transition(name, t) ==
  /\ classList' = t.cl
  /\ fired' = t.cb
  /\ op' = name
  /\ again' = (op = name)
  /\ lastPinCallback' = LastPin(lastPinCallback, t.cb)
  /\ reading' = NoReading
  /\ prevScrollY' = lastKnownScrollY
  /\ UNCHANGED << lastKnownScrollY, frozen, config, lifecycle >>

Pin       == Transition("pin", pin(classList))
Unpin     == Transition("unpin", unpin(classList))
Top       == Transition("top", top(classList))
NotTop    == Transition("notTop", notTop(classList))
Bottom    == Transition("bottom", bottom(classList))
NotBottom == Transition("notBottom", notBottom(classList))

NextCalls ==
  \/ Update
  \/ freeze
  \/ unfreeze
  \/ Pin
  \/ Unpin
  \/ Top
  \/ NotTop
  \/ Bottom
  \/ NotBottom

SpecCalls == Init /\ [][NextCalls]_vars

(* --------------------------- NaN positions ----------------------------- *)

\* the readings of a scroll source whose scrollY() is NaN
NaNReadings ==
  [ scrollY : { NaN }, height : { ViewportHeight },
    scrollHeight : { ViewportHeight + MaxPos - 1, ViewportHeight + MaxPos } ]

\* a caller invokes update() while the scroll source reports NaN
UpdateNaN ==
  /\ \E r \in NaNReadings : update(r)
  /\ UNCHANGED << frozen, config, lifecycle >>

NextNaN ==
  \/ Update
  \/ UpdateNaN
  \/ freeze
  \/ unfreeze

SpecNaN == Init /\ [][NextNaN]_vars

(* --------------------------- the constructor --------------------------- *)

\* the numbers an options object may carry for offset and tolerance
OptionNumbers == (-1) .. MaxTol

\* options.tolerance given as a number (a record holding it) or as an object
NumberTolerances == [ value : OptionNumbers ]
ObjectTolerances == [ up : OptionNumbers, down : OptionNumbers ]

\* t === Object(t)
IsObject(t) == "up" \in DOMAIN t

normalizeTolerance(t) ==
  IF IsObject(t) THEN t ELSE [ down |-> t.value, up |-> t.value ]

\* new Headroom(elem, options): options.offset and options.tolerance are stored
\* as given, the tolerance normalized
Headroom(options) ==
  /\ classList = {}
  /\ lastKnownScrollY = 0
  /\ frozen = FALSE
  /\ initialised = FALSE
  /\ offset = options.offset
  /\ tolerance = normalizeTolerance(options.tolerance)
  /\ handlers = options.handlers
  /\ debouncer = 0
  /\ timers = 0
  /\ listeners = {}
  /\ ticking = {}
  /\ reading = NoReading
  /\ prevScrollY = 0
  /\ fired = << >>
  /\ op = "new"
  /\ again = FALSE
  /\ lastPinCallback = "none"

InitOptions ==
  \E o \in (-1) .. MaxOffset, h \in HandlerSets :
    \/ \E t \in NumberTolerances :
         Headroom([ offset |-> o, tolerance |-> t, handlers |-> h ])
    \/ \E t \in ObjectTolerances :
         Headroom([ offset |-> o, tolerance |-> t, handlers |-> h ])

SpecConfig == InitOptions /\ [][Next]_vars

(* ----------------------------- lifecycle ------------------------------- *)

\* Debouncer identities no listener registration or requested frame still refers to
FreeDebouncers == (1 .. MaxDebouncers) \ (listeners \cup ticking)

\* Debouncer.handleEvent -> requestTick: request one frame unless one is pending
handleEvent(d) == ticking \cup { d }

init ==
  /\ cutsTheMustard
  /\ timers < MaxTimers
  /\ FreeDebouncers # {}
  /\ debouncer' = CHOOSE d \in FreeDebouncers : \A e \in FreeDebouncers : d <= e
  /\ classList' = classList \cup { classes.initial }
  /\ timers' = timers + 1
  /\ prevScrollY' = lastKnownScrollY
  /\ fired' = << >>
  /\ op' = "init"
  /\ again' = FALSE
  /\ UNCHANGED lastPinCallback
  /\ reading' = NoReading
  /\ UNCHANGED << lastKnownScrollY, frozen, initialised, config, listeners, ticking >>

destroy ==
  /\ initialised' = FALSE
  /\ classList' = classList \ ClassNames
  /\ listeners' = listeners \ { debouncer }
  /\ prevScrollY' = lastKnownScrollY
  /\ fired' = << >>
  /\ op' = "destroy"
  /\ again' = FALSE
  /\ lastPinCallback' = "none"
  /\ reading' = NoReading
  /\ UNCHANGED << lastKnownScrollY, frozen, config, debouncer, timers, ticking >>

\* attachEvent() without its test of this.initialised
attachEventUnguarded ==
  /\ timers > 0
  /\ timers' = timers - 1
  /\ prevScrollY' = lastKnownScrollY
  /\ fired' = << >>
  /\ op' = "attachEvent"
  /\ again' = FALSE
  /\ UNCHANGED lastPinCallback
  /\ \E r \in Readings :
       /\ reading' = r
       /\ lastKnownScrollY' = r.scrollY
  /\ initialised' = TRUE
  /\ listeners' = listeners \cup { debouncer }
  /\ ticking' = handleEvent(debouncer)
  /\ UNCHANGED << classList, frozen, config, debouncer >>

\* a setTimeout(this.attachEvent.bind(this), 100) of init() expires
attachEvent ==
  /\ timers > 0
  /\ timers' = timers - 1
  /\ prevScrollY' = lastKnownScrollY
  /\ fired' = << >>
  /\ op' = "attachEvent"
  /\ again' = FALSE
  /\ UNCHANGED lastPinCallback
  /\ IF ~initialised
     THEN /\ \E r \in Readings :
               /\ reading' = r
               /\ lastKnownScrollY' = r.scrollY
          /\ initialised' = TRUE
          /\ listeners' = listeners \cup { debouncer }
          /\ ticking' = handleEvent(debouncer)
     ELSE /\ reading' = NoReading
          /\ UNCHANGED << lastKnownScrollY, initialised, listeners, ticking >>
  /\ UNCHANGED << classList, frozen, config, debouncer >>

\* the scroller dispatches "scroll" to its registered listeners
scroll ==
  /\ listeners # {}
  /\ ticking' = UNION { handleEvent(d) : d \in listeners }
  /\ prevScrollY' = lastKnownScrollY
  /\ fired' = << >>
  /\ op' = "scroll"
  /\ again' = FALSE
  /\ UNCHANGED lastPinCallback
  /\ reading' = NoReading
  /\ UNCHANGED << classList, lastKnownScrollY, frozen, initialised, config,
                  debouncer, timers, listeners >>

\* the frame Debouncer d requested runs: its callback, update(), then ticking = false
rafCallback(d) ==
  /\ d \in ticking
  /\ \E r \in Readings : update(r)
  /\ ticking' = ticking \ { d }
  /\ UNCHANGED << frozen, initialised, config, debouncer, timers, listeners >>

\* new Headroom(elem, options) with the default offset and tolerance and
\* all six callbacks given
InitDefault ==
  /\ Init
  /\ offset = 0
  /\ tolerance = [ up |-> 0, down |-> 0 ]
  /\ handlers = Callbacks

NextLife ==
  \/ init
  \/ attachEvent
  \/ destroy
  \/ scroll
  \/ \E d \in 1 .. MaxDebouncers : rafCallback(d)
  \/ freeze
  \/ unfreeze

SpecLife == InitDefault /\ [][NextLife]_vars

\* the lifecycle of an instance that is never destroyed
NextAttach ==
  \/ init
  \/ attachEvent
  \/ scroll
  \/ \E d \in 1 .. MaxDebouncers : rafCallback(d)
  \/ freeze
  \/ unfreeze

SpecAttach == InitDefault /\ [][NextAttach]_vars

\* init(), destroy(), update(), freeze() and unfreeze() called on the instance
\* in any order, the timers of init() expiring in between
NextRestart ==
  \/ init
  \/ attachEvent
  \/ destroy
  \/ Update
  \/ freeze
  \/ unfreeze

SpecRestart == InitDefault /\ [][NextRestart]_vars

(* ------------------------- reading the claims -------------------------- *)

\* times callback cb occurs in a sequence of fired callbacks
Count(cb, seq) == Cardinality({ i \in DOMAIN seq : seq[i].name = cb })

\* position < 0 or position + viewportHeight > contentHeight
OutOfBounds(r) == r.scrollY < 0 \/ r.scrollY + r.height > r.scrollHeight

\* the step is an update() that starts not frozen, on an in-bounds reading
ActiveTick == op' = "update" /\ ~frozen /\ ~OutOfBounds(reading')

\* the state follows an update() that ran not frozen on an in-bounds reading
AfterActiveTick == op = "update" /\ ~frozen /\ ~OutOfBounds(reading)

\* the classes of the three axes
AxisClasses ==
  { classes.pinned, classes.unpinned, classes.top, classes.notTop,
    classes.bottom, classes.notBottom }

PinClasses == { classes.pinned, classes.unpinned }

(* -------------------------------- C1 ----------------------------------- *)

\* C1: an update() whose reading is out of bounds (position < 0 or position +
\* viewportHeight > contentHeight) changes no class, fires no callback and
\* leaves lastKnownScrollY unchanged, frozen or not.
C1_OutOfBoundsImmunity ==
  [][ (op' = "update" /\ OutOfBounds(reading'))
        => /\ classList' = classList
           /\ lastKnownScrollY' = lastKnownScrollY
           /\ fired' = << >> ]_vars

\* an out-of-bounds tick past the bottom has run on an unpinned element whose
\* last known position is another one
C1_Witness ==
  /\ op = "update"
  /\ reading.scrollY + reading.height > reading.scrollHeight
  /\ classes.unpinned \in classList
  /\ lastKnownScrollY # reading.scrollY

(* -------------------------------- C2 ----------------------------------- *)

\* C2: while frozen, an in-bounds update() sets lastKnownScrollY to the
\* reading's position, changes no class and fires no callback.
C2_FrozenGuard ==
  [][ (op' = "update" /\ frozen /\ ~OutOfBounds(reading'))
        => /\ lastKnownScrollY' = reading'.scrollY
           /\ classList' = classList
           /\ fired' = << >> ]_vars

\* a frozen in-bounds tick has moved lastKnownScrollY to a position where an
\* active tick would have changed the top axis
C2_Witness ==
  /\ op = "update"
  /\ frozen
  /\ ~OutOfBounds(reading)
  /\ lastKnownScrollY = reading.scrollY
  /\ prevScrollY # lastKnownScrollY
  /\ classes.top \in classList
  /\ reading.scrollY > offset

(* -------------------------------- C3 ----------------------------------- *)

\* C3: after an active in-bounds update() with position > lastKnownScrollY,
\* position >= offset and |position - lastKnownScrollY| >= tolerance.down the
\* element is unpinned (unpinned present, pinned absent); a registered onUnpin
\* fires exactly once if the element was not already unpinned, else not at all.
C3_UnpinRule ==
  [][ ( /\ ActiveTick
        /\ reading'.scrollY > lastKnownScrollY
        /\ reading'.scrollY >= offset
        /\ Abs(reading'.scrollY - lastKnownScrollY) >= tolerance.down )
        => /\ classes.unpinned \in classList'
           /\ classes.pinned \notin classList'
           /\ Count("onUnpin", fired') =
                IF classes.unpinned \notin classList /\ "onUnpin" \in handlers
                THEN 1 ELSE 0 ]_vars

\* onUnpin has fired on a downward tick that landed exactly on a positive
\* offset, with a positive tolerance.down
C3_Witness ==
  /\ AfterActiveTick
  /\ Count("onUnpin", fired) = 1
  /\ reading.scrollY > prevScrollY
  /\ reading.scrollY = offset
  /\ tolerance.down > 0
  /\ classes.unpinned \in classList

(* -------------------------------- C4 ----------------------------------- *)

\* the unpin condition of the claims: moving down, at or past the offset, by
\* at least tolerance.down
UnpinCase(position) ==
  /\ position > lastKnownScrollY
  /\ position >= offset
  /\ Abs(position - lastKnownScrollY) >= tolerance.down

\* what an attempted pin shows on an element that was unpinned: it is pinned
\* afterwards and a registered onPin fired once; with no attempt the element
\* stays unpinned and onPin does not fire
PinShows(attempted) ==
  /\ (classes.pinned \in classList') <=> attempted
  /\ (classes.unpinned \in classList') <=> ~attempted
  /\ Count("onPin", fired') = IF attempted /\ "onPin" \in handlers THEN 1 ELSE 0

\* C4 as stated: in an active in-bounds update() where the unpin condition is
\* false, a pin is attempted exactly when (position <= lastKnownScrollY and
\* |position - lastKnownScrollY| >= tolerance.up) or position <= offset; so an
\* unpinned element is pinned by a tick at its last known position when
\* tolerance.up = 0.
C4_PinRuleEqualIsUp ==
  [][ ( /\ ActiveTick
        /\ ~UnpinCase(reading'.scrollY)
        /\ classes.unpinned \in classList )
        => PinShows( \/ /\ reading'.scrollY <= lastKnownScrollY
                        /\ Abs(reading'.scrollY - lastKnownScrollY) >= tolerance.up
                     \/ reading'.scrollY <= offset ) ]_vars

\* C4 amended: in an active in-bounds update() where the unpin condition is
\* false, a pin is attempted exactly when (position < lastKnownScrollY and
\* |position - lastKnownScrollY| >= tolerance.up) or position <= offset; a
\* tick at the last known position above the offset attempts no pin.
C4_PinRule ==
  [][ ( /\ ActiveTick
        /\ ~UnpinCase(reading'.scrollY)
        /\ classes.unpinned \in classList )
        => PinShows( \/ /\ reading'.scrollY < lastKnownScrollY
                        /\ Abs(reading'.scrollY - lastKnownScrollY) >= tolerance.up
                     \/ reading'.scrollY <= offset ) ]_vars

\* an unpinned element has stayed unpinned through an active tick at its last
\* known position, above the offset, with tolerance.up = 0
C4_Witness ==
  /\ AfterActiveTick
  /\ reading.scrollY = prevScrollY
  /\ reading.scrollY > offset
  /\ tolerance.up = 0
  /\ classes.unpinned \in classList
  /\ fired = << >>

(* -------------------------------- C5 ----------------------------------- *)

\* what C5 promises of a tick: the element is not unpinned afterwards, an
\* element that was unpinned is pinned with a registered onPin fired, and
\* onUnpin does not fire
PinnedByOffset ==
  /\ classes.unpinned \notin classList'
  /\ classes.unpinned \in classList =>
        /\ classes.pinned \in classList'
        /\ "onPin" \in handlers => Count("onPin", fired') = 1
  /\ Count("onUnpin", fired') = 0

\* C5 as stated: after every active in-bounds update() with position <= offset
\* the element is not unpinned (pinned, with onPin fired, if it was unpinned)
\* and onUnpin has not fired, whatever lastKnownScrollY and the tolerance.
C5_OffsetAlwaysPins ==
  [][ (ActiveTick /\ reading'.scrollY <= offset) => PinnedByOffset ]_vars

\* C5 amended: the same for every active in-bounds update() with position <
\* offset, and with position = offset unless the tick moves down (position >
\* lastKnownScrollY) by at least tolerance.down; in that last case the element
\* is unpinned instead.
C5_OffsetPins ==
  [][ ActiveTick =>
        /\ (reading'.scrollY <= offset /\ ~UnpinCase(reading'.scrollY))
             => PinnedByOffset
        /\ (reading'.scrollY = offset /\ UnpinCase(reading'.scrollY))
             => /\ classes.unpinned \in classList'
                /\ Count("onPin", fired') = 0 ]_vars

\* an unpinned element has been pinned by a downward tick that stayed below
\* the offset and within the tolerance
C5_Witness ==
  /\ AfterActiveTick
  /\ reading.scrollY < offset
  /\ reading.scrollY > prevScrollY
  /\ Abs(reading.scrollY - prevScrollY) < tolerance.down
  /\ classes.pinned \in classList
  /\ Count("onPin", fired) = 1

(* -------------------------------- C6 ----------------------------------- *)

\* toleranceExceeded as update() passes it to shouldUnpin and shouldPin
TickTolerance(position) ==
  toleranceExceeded(position, IF position > lastKnownScrollY THEN "down" ELSE "up")

\* both conditions hold for a reading
BothHold(r) ==
  /\ shouldUnpin(r.scrollY, TickTolerance(r.scrollY))
  /\ shouldPin(r.scrollY, TickTolerance(r.scrollY))

\* C6 as stated: for every lastKnownScrollY, offset, tolerance and in-bounds
\* reading, shouldUnpin and shouldPin are never both true.
C6_MutuallyExclusive ==
  \A r \in Readings : ~OutOfBounds(r) => ~BothHold(r)

\* C6 amended: shouldUnpin and shouldPin are both true exactly when position =
\* offset, position > lastKnownScrollY and |position - lastKnownScrollY| >=
\* tolerance.down (there the unpin-before-pin order decides: unpin); for every
\* other in-bounds reading they are never both true.
C6_ExclusiveOffTheOffset ==
  \A r \in Readings :
     ~OutOfBounds(r) =>
        ( BothHold(r) <=> (r.scrollY = offset /\ UnpinCase(r.scrollY)) )

\* an active tick has met both conditions (down onto the offset, tolerance
\* exceeded) and the order decided: a pinned element was unpinned
C6_Witness ==
  /\ AfterActiveTick
  /\ reading.scrollY = offset
  /\ reading.scrollY > prevScrollY
  /\ Abs(reading.scrollY - prevScrollY) >= tolerance.down
  /\ Count("onUnpin", fired) = 1
  /\ lastKnownScrollY = offset

(* -------------------------------- C7 ----------------------------------- *)

\* C7: after every active in-bounds update() the element has top and not
\* notTop if position <= offset, else notTop and not top; a registered onTop
\* (onNotTop) fires once exactly when top (notTop) was absent before and is
\* the class of the tick, and never otherwise.
C7_TopAxis ==
  [][ ActiveTick =>
        LET atTop == reading'.scrollY <= offset
        IN  /\ (classes.top \in classList') <=> atTop
            /\ (classes.notTop \in classList') <=> ~atTop
            /\ Count("onTop", fired') =
                 IF atTop /\ classes.top \notin classList /\ "onTop" \in handlers
                 THEN 1 ELSE 0
            /\ Count("onNotTop", fired') =
                 IF ~atTop /\ classes.notTop \notin classList
                    /\ "onNotTop" \in handlers
                 THEN 1 ELSE 0 ]_vars

\* a tick exactly on a positive offset has brought a notTop element back to
\* top and fired onTop
C7_Witness ==
  /\ AfterActiveTick
  /\ reading.scrollY = offset
  /\ offset > 0
  /\ prevScrollY > offset
  /\ classes.top \in classList
  /\ Count("onTop", fired) = 1

(* -------------------------------- C8 ----------------------------------- *)

\* C8: after every active update() whose reading is not out of bounds, the
\* reading with position + viewportHeight = contentHeight included, bottom is
\* present iff position + viewportHeight >= contentHeight and notBottom is
\* present otherwise; a registered onBottom fires once if bottom was absent.
C8_BottomAxis ==
  [][ ActiveTick =>
        LET atBottom == reading'.scrollY + reading'.height >= reading'.scrollHeight
        IN  /\ (classes.bottom \in classList') <=> atBottom
            /\ (classes.notBottom \in classList') <=> ~atBottom
            /\ Count("onBottom", fired') =
                 IF atBottom /\ classes.bottom \notin classList
                    /\ "onBottom" \in handlers
                 THEN 1 ELSE 0 ]_vars

\* a tick with position + viewportHeight = contentHeight has put a notBottom
\* element into the bottom state and fired onBottom
C8_Witness ==
  /\ AfterActiveTick
  /\ reading.scrollY + reading.height = reading.scrollHeight
  /\ prevScrollY < reading.scrollY
  /\ classes.bottom \in classList
  /\ classes.notBottom \notin classList
  /\ Count("onBottom", fired) = 1

(* -------------------------------- C9 ----------------------------------- *)

\* C9: an active in-bounds update() with position > offset and |position -
\* lastKnownScrollY| < tolerance[direction] fires neither onPin nor onUnpin
\* and leaves the pinned / unpinned classes as they were, lastKnownScrollY
\* being the position of the last in-bounds tick, frozen or not.
C9_Hysteresis ==
  [][ ( /\ ActiveTick
        /\ reading'.scrollY > offset
        /\ Abs(reading'.scrollY - lastKnownScrollY) <
             tolerance[IF reading'.scrollY > lastKnownScrollY THEN "down" ELSE "up"] )
        => /\ Count("onPin", fired') = 0
           /\ Count("onUnpin", fired') = 0
           /\ classList' \cap PinClasses = classList \cap PinClasses ]_vars

\* a pinned element has stayed pinned through an active downward tick above
\* the offset that moved by less than tolerance.down
C9_Witness ==
  /\ AfterActiveTick
  /\ reading.scrollY > offset
  /\ reading.scrollY > prevScrollY
  /\ Abs(reading.scrollY - prevScrollY) < tolerance.down
  /\ classes.pinned \in classList
  /\ "onPin" \in handlers

(* -------------------------------- C10 ---------------------------------- *)

\* destroy() has run and init() has not run since, or init() never ran: only
\* init() adds the initial class and only destroy() removes it
Destroyed == classes.initial \notin classList

\* C10: once destroyed, and until init() is called again, the widget stays
\* detached and clean: no scroll listener is registered, the element carries
\* no axis class and no callback fires, whatever timer expiry, scroll
\* notification or frame comes next.
C10_DestroyedStaysClean ==
  [][ Destroyed =>
        \/ classes.initial \in classList'
        \/ /\ listeners' = {}
           /\ classList' \cap AxisClasses = {}
           /\ fired' = << >> ]_vars

(* -------------------------------- C11 ---------------------------------- *)

\* C11: a transition called directly fires at most one callback, its own, and
\* fires it only when the call changes the classes; when the same transition
\* was the operation just before, the second call changes no class and fires
\* nothing, so that the two calls together fire the callback at most once.
C11_Idempotent ==
  [][ op' \in TransitionNames =>
        /\ Len(fired') <= 1
        /\ \A i \in DOMAIN fired' : fired'[i].name = CallbackOf[op']
        /\ fired' # << >> => classList' # classList
        /\ op = op' =>
             /\ classList' = classList
             /\ fired' = << >>
             /\ Len(fired) + Len(fired') <= 1 ]_vars

\* unpin() called twice in a row on an instance with every callback, the
\* second call finding the element unpinned and firing nothing
C11_Witness ==
  /\ op = "unpin"
  /\ again
  /\ handlers = Callbacks
  /\ classes.unpinned \in classList
  /\ fired = << >>

(* -------------------------------- C12 ---------------------------------- *)

\* the axis a callback belongs to, in the order update() handles the axes
AxisRank ==
  [ onTop |-> 1, onNotTop |-> 1, onBottom |-> 2, onNotBottom |-> 2,
    onPin |-> 3, onUnpin |-> 3 ]

\* C12: the callbacks of one update() come in the order top/notTop, then
\* bottom/notBottom, then pin/unpin, at most one for each axis and so at most
\* three; every one of them runs while lastKnownScrollY still holds the value
\* the update found, and the new position is stored once they have all run.
C12_CallbackOrder ==
  [][ op' = "update" =>
        /\ Len(fired') <= 3
        /\ \A i, j \in DOMAIN fired' :
             i < j => AxisRank[fired'[i].name] < AxisRank[fired'[j].name]
        /\ \A i \in DOMAIN fired' :
             fired'[i].lastKnownScrollY = lastKnownScrollY
        /\ fired' # << >> => lastKnownScrollY' = reading'.scrollY ]_vars

\* an update to a new position that fired a callback on each of the three axes
C12_Witness ==
  /\ op = "update"
  /\ Len(fired) = 3
  /\ lastKnownScrollY # prevScrollY

(* -------------------------------- C13 ---------------------------------- *)

\* the step is an update() whose position is NaN
NaNTick == op' = "update" /\ IsNaN(reading'.scrollY)

\* C13 as stated: an update() whose position is NaN changes no axis class and
\* fires no callback.
C13_NaNTickIsNoOp ==
  [][ NaNTick =>
        /\ classList' \cap AxisClasses = classList \cap AxisClasses
        /\ fired' = << >> ]_vars

\* C13 as the code has it: an update() whose position is NaN is not out of
\* bounds and stores NaN in lastKnownScrollY; it never changes the pinned or
\* unpinned class and fires neither onPin nor onUnpin; frozen, it changes no
\* class and fires nothing; not frozen, it leaves the element notTop and
\* notBottom, firing onNotTop and onNotBottom exactly for the classes that
\* were absent, and never onTop or onBottom.
C13_NaNTick ==
  [][ NaNTick =>
        /\ lastKnownScrollY' = NaN
        /\ classList' \cap PinClasses = classList \cap PinClasses
        /\ Count("onPin", fired') = 0 /\ Count("onUnpin", fired') = 0
        /\ Count("onTop", fired') = 0 /\ Count("onBottom", fired') = 0
        /\ frozen => classList' = classList /\ fired' = << >>
        /\ ~frozen =>
             /\ classList' =
                  (classList \cup { classes.notTop, classes.notBottom })
                    \ { classes.top, classes.bottom }
             /\ handlers = Callbacks =>
                  /\ Count("onNotTop", fired') = 1 <=> classes.notTop \notin classList
                  /\ Count("onNotBottom", fired') = 1 <=> classes.notBottom \notin classList ]_vars

\* an update() with a NaN position that found the element at the top and
\* left it notTop, firing onNotTop
C13_Witness ==
  /\ op = "update"
  /\ IsNaN(reading.scrollY)
  /\ IsNaN(lastKnownScrollY)
  /\ ~IsNaN(prevScrollY)
  /\ prevScrollY <= offset
  /\ classes.notTop \in classList
  /\ Count("onNotTop", fired) = 1

(* -------------------------------- C14 ---------------------------------- *)

\* C14: no usable instance has a negative offset or a negative tolerance: an
\* instance that has run an update() was constructed with offset >= 0,
\* tolerance.up >= 0 and tolerance.down >= 0.
C14_InvalidConfigRejected ==
  op = "update" =>
    /\ offset >= 0
    /\ tolerance.up >= 0
    /\ tolerance.down >= 0

(* -------------------------------- C15 ---------------------------------- *)

Tolerances == [ up : 0 .. MaxTol, down : 0 .. MaxTol ]

\* the direction update() computes for reading r
DirectionOf(r) == IF r.scrollY > lastKnownScrollY THEN "down" ELSE "up"

\* the pin-axis callbacks an active update() on reading r fires in the current
\* state when the instance's tolerance is tol
PinFired(tol, r) ==
  LET exceeded == toleranceExceededWith(tol, r.scrollY, DirectionOf(r))
      cbs      == pinAxis(r.scrollY, exceeded, classList).cb
  IN  { cbs[i].name : i \in DOMAIN cbs }

\* the tolerances not above the instance's in the direction of reading r
NotAbove(r) ==
  { t1 \in Tolerances : t1[DirectionOf(r)] <= tolerance[DirectionOf(r)] }

\* a downward move that lands exactly on the offset
LandsOnOffset(r) == r.scrollY = offset /\ r.scrollY > lastKnownScrollY

\* C15 as stated: in every state, each in-bounds reading that makes the
\* instance fire onPin or onUnpin makes an instance in the same state with a
\* tolerance not above its own fire the same callback.
C15_Monotone ==
  ~frozen =>
    \A r \in Readings :
      ~OutOfBounds(r) =>
        \A t1 \in NotAbove(r) : PinFired(tolerance, r) \subseteq PinFired(t1, r)

\* C15 without the boundary: the same holds for every in-bounds reading except
\* a downward move landing exactly on the offset, where the instance with the
\* higher tolerance can fire onPin (and nothing else) that the other does not.
C15_MonotoneOffTheOffset ==
  ~frozen =>
    \A r \in Readings :
      ~OutOfBounds(r) =>
        \A t1 \in NotAbove(r) :
          IF LandsOnOffset(r)
          THEN PinFired(tolerance, r) \ PinFired(t1, r) \subseteq { "onPin" }
          ELSE PinFired(tolerance, r) \subseteq PinFired(t1, r)

\* after an update(), a state where some reading off the boundary makes the
\* instance fire a pin-axis callback and a strictly lower tolerance exists
C15_Witness ==
  /\ AfterActiveTick
  /\ handlers = Callbacks
  /\ \E r \in Readings :
       /\ ~OutOfBounds(r)
       /\ ~LandsOnOffset(r)
       /\ Abs(r.scrollY - lastKnownScrollY) = tolerance[DirectionOf(r)]
       /\ tolerance[DirectionOf(r)] > 0
       /\ r.scrollY > offset
       /\ PinFired(tolerance, r) # {}

(* -------------------------------- C16 ---------------------------------- *)

\* C16: on an instance that is never destroyed, attachEvent() running while
\* the widget is not initialised stores the position it reads in
\* lastKnownScrollY, registers this.debouncer as the scroll listener and
\* requests one frame for it, none being pending; running while the widget is
\* initialised it registers nothing, requests nothing and keeps
\* lastKnownScrollY; whatever the number of init() calls, at most one listener
\* is registered.
C16_AttachOnce ==
  [][ /\ op' = "attachEvent" =>
           IF ~initialised
           THEN /\ reading' \in Readings
                /\ lastKnownScrollY' = reading'.scrollY
                /\ initialised'
                /\ debouncer \notin listeners
                /\ listeners' = listeners \cup { debouncer }
                /\ debouncer \notin ticking
                /\ ticking' = ticking \cup { debouncer }
           ELSE /\ listeners' = listeners
                /\ ticking' = ticking
                /\ lastKnownScrollY' = lastKnownScrollY
      /\ Cardinality(listeners') <= 1 ]_vars

\* attachEvent() of a second init() has run on the initialised widget: the
\* listener of the first init() is the only one, the Debouncer of the second
\* is not registered
C16_Witness ==
  /\ op = "attachEvent"
  /\ initialised
  /\ reading = NoReading
  /\ Cardinality(listeners) = 1
  /\ debouncer \notin listeners

(* -------------------------------- C17 ---------------------------------- *)

\* a freeze() or unfreeze() step sets or clears the flag and the class, fires
\* no callback and keeps lastKnownScrollY and the classes of the three axes
FreezeTouchesOnlyFrozen ==
  op' \in { "freeze", "unfreeze" } =>
    /\ frozen' = (op' = "freeze")
    /\ classes.frozen \in classList' <=> op' = "freeze"
    /\ fired' = << >>
    /\ lastKnownScrollY' = lastKnownScrollY
    /\ classList' \cap AxisClasses = classList \cap AxisClasses

\* the frozen flag and the frozen class agree
FrozenAgrees == frozen <=> classes.frozen \in classList

\* C17: freeze() and unfreeze() touch only the frozen axis, and the frozen
\* flag and the frozen class agree after every step.
C17_FrozenFlagAndClassAgree ==
  [][ FreezeTouchesOnlyFrozen /\ FrozenAgrees' ]_vars

\* the part of C17 about freeze() and unfreeze() themselves
C17_FreezeTouchesOnlyFrozen ==
  [][ FreezeTouchesOnlyFrozen ]_vars

(* -------------------------------- C18 ---------------------------------- *)

\* C18: on an instance that starts with neither the pinned nor the unpinned
\* class, an operation fires at most one of onPin and onUnpin; onPin fires only
\* when the one fired last before it was onUnpin, so never first and never
\* twice running; onUnpin fires only when the one fired last before it was not
\* onUnpin; freeze() and unfreeze() fire neither.
C18_PinUnpinAlternate ==
  [][ /\ Count("onPin", fired') + Count("onUnpin", fired') <= 1
      /\ Count("onPin", fired') = 1 => lastPinCallback = "onUnpin"
      /\ Count("onUnpin", fired') = 1 => lastPinCallback # "onUnpin"
      /\ op' # "update" => Count("onPin", fired') + Count("onUnpin", fired') = 0 ]_vars

\* an update() has fired onPin, the element having been unpinned with onUnpin
\* before
C18_Witness ==
  /\ op = "update"
  /\ Count("onPin", fired) = 1
  /\ lastPinCallback = "onPin"
  /\ classes.pinned \in classList

(* -------------------------------- C19 ---------------------------------- *)

\* C19: the element never carries both classes of an axis: not pinned with
\* unpinned, not top with notTop, not bottom with notBottom.
C19_AxesExclusive ==
  /\ ~(classes.pinned \in classList /\ classes.unpinned \in classList)
  /\ ~(classes.top \in classList /\ classes.notTop \in classList)
  /\ ~(classes.bottom \in classList /\ classes.notBottom \in classList)

\* an update() has moved the element from unpinned to pinned and from notTop
\* to top, each axis carrying one class
C19_Witness ==
  /\ op = "update"
  /\ Count("onPin", fired) = 1
  /\ Count("onTop", fired) = 1
  /\ { classes.pinned, classes.top } \subseteq classList
  /\ Cardinality(classList \cap AxisClasses) = 3

(* -------------------------------- C20 ---------------------------------- *)

\* C20: lastKnownScrollY is the position of the latest in-bounds update(), or
\* the one attachEvent() recorded when there has been none: an update() stores
\* its position when the reading is in bounds, frozen or not, and keeps
\* lastKnownScrollY when it is out of bounds; attachEvent() stores the position
\* it reads when it attaches; no other operation changes lastKnownScrollY.
C20_LastKnownScrollY ==
  [][ /\ op' = "update" =>
           lastKnownScrollY' =
             IF OutOfBounds(reading') THEN lastKnownScrollY ELSE reading'.scrollY
      /\ op' = "attachEvent" =>
           lastKnownScrollY' =
             IF initialised THEN lastKnownScrollY ELSE reading'.scrollY
      /\ op' \notin { "update", "attachEvent" } =>
           lastKnownScrollY' = lastKnownScrollY ]_vars

\* an out-of-bounds update() on the attached widget has left lastKnownScrollY
\* at the position of an earlier tick
C20_Witness ==
  /\ op = "update"
  /\ initialised
  /\ OutOfBounds(reading)
  /\ lastKnownScrollY = prevScrollY
  /\ lastKnownScrollY > 0
  /\ lastKnownScrollY # reading.scrollY

====
